---- MODULE Spec2Model ----
(***************************************************************************)
(* MoodPaper: a browser client that keeps a user-supplied API credential   *)
(* in a resilient key-value store, validates it against the provider and   *)
(* sequences topic, prompt and image requests against it.                  *)
(*                                                                         *)
(* Strings are sequences of tokens: <<>> is the empty string, " " is the   *)
(* whitespace token and "," the comma token.  JavaScript null/undefined is *)
(* the reserved one-token sequence NULL, which no input alphabet contains. *)
(* The Korean texts of the source are given by their English glosses.      *)
(***************************************************************************)
EXTENDS Integers, Sequences, FiniteSets, Bags, TLC

\* ------------------------------------------------------------------------
\* Bounds of the model
\* ------------------------------------------------------------------------
MaxCalls == 2       \* client calls the coordinator makes in one session

\* ------------------------------------------------------------------------
\* Strings
\* ------------------------------------------------------------------------
NULL == <<"null">>

Falsy(x) == x = NULL \/ x = <<>>

RECURSIVE TrimStart(_)
TrimStart(s) ==
  IF s # <<>> /\ Head(s) = " " THEN TrimStart(Tail(s)) ELSE s

RECURSIVE TrimEnd(_)
TrimEnd(s) ==
  IF s # <<>> /\ s[Len(s)] = " " THEN TrimEnd(SubSeq(s, 1, Len(s) - 1)) ELSE s

\* String.prototype.trim
Trim(s) == TrimEnd(TrimStart(s))

\* String.prototype.includes: needle occurs as a contiguous run of hay
Includes(hay, needle) ==
  \E i \in 0..(Len(hay) - Len(needle)) :
    SubSeq(hay, i + 1, i + Len(needle)) = needle

\* the text before the first comma of s
RECURSIVE BeforeComma(_)
BeforeComma(s) ==
  IF s = <<>> \/ Head(s) = "," THEN <<>> ELSE <<Head(s)>> \o BeforeComma(Tail(s))

\* String.prototype.split(','): "" splits into one empty piece
RECURSIVE SplitComma(_)
SplitComma(s) ==
  LET first == BeforeComma(s)
  IN  IF Len(first) = Len(s) THEN <<first>>
      ELSE <<first>> \o SplitComma(SubSeq(s, Len(first) + 2, Len(s)))

\* Array.prototype.map(t => t.trim())
MapTrim(xs) == [i \in DOMAIN xs |-> Trim(xs[i])]

\* Array.prototype.filter(t => t.length > 0)
RECURSIVE FilterNonEmpty(_)
FilterNonEmpty(xs) ==
  IF xs = <<>> THEN <<>>
  ELSE IF Len(Head(xs)) > 0 THEN <<Head(xs)>> \o FilterNonEmpty(Tail(xs))
       ELSE FilterNonEmpty(Tail(xs))

\* ------------------------------------------------------------------------
\* Resilient key-value store (utils/safeStorage.ts)
\* ------------------------------------------------------------------------
CredKey == <<"moodpaper_api_key">>
OtherKey == <<"other">>
Keys == {CredKey, OtherKey}

\* How window.localStorage behaves in this session.
\*   ok            every access works
\*   absent        window.localStorage is undefined
\*   accessThrows  reading the window.localStorage property throws
\*   readThrows    localStorage.getItem throws
\*   writeThrows   localStorage.setItem throws (quota of zero), reads work
\*   deleteThrows  localStorage.removeItem throws
\*   dropsWrites   localStorage.setItem returns normally but stores nothing
StorageModes ==
  {"ok", "absent", "accessThrows", "readThrows", "writeThrows",
   "deleteThrows", "dropsWrites"}

StoreValues == {<<>>, <<"a">>}

VARIABLES
  lsMode,     \* behaviour of window.localStorage in this session
  ls,         \* contents of window.localStorage: key -> string or NULL
  memoryStore,\* the in-memory fallback: key -> string or NULL (no entry)
  written,    \* history: key -> value of the last setItem of this session
  lastOp      \* history: the last store operation and what it returned

storeVars == <<lsMode, ls, memoryStore, written, lastOp>>

\* the guarded block reaches localStorage.getItem and it returns
ReadReaches(mode) == mode \in {"ok", "writeThrows", "deleteThrows", "dropsWrites"}
\* the guarded block reaches localStorage.setItem and the value is stored
WriteStores(mode) == mode \in {"ok", "readThrows", "deleteThrows"}
\* the guarded block reaches localStorage.removeItem and the entry is deleted
DeleteRemoves(mode) == mode \in {"ok", "readThrows", "writeThrows", "dropsWrites"}

\* memoryStore[key] || null
MemoryOrNull(mem, k) == IF Falsy(mem[k]) THEN NULL ELSE mem[k]

\* safeStorage.getItem
getItem(mode, store, mem, k) ==
  IF ReadReaches(mode) THEN store[k] ELSE MemoryOrNull(mem, k)

\* safeStorage.setItem: the new localStorage contents and memoryStore
setItemLs(mode, store, k, v) ==
  IF WriteStores(mode) THEN [store EXCEPT ![k] = v] ELSE store

setItemMem(mem, k, v) == [mem EXCEPT ![k] = v]

\* safeStorage.removeItem
removeItemLs(mode, store, k) ==
  IF DeleteRemoves(mode) THEN [store EXCEPT ![k] = NULL] ELSE store

removeItemMem_all(mem, k) == [j \in DOMAIN mem |-> NULL]

\* delete memoryStore[key]
removeItemMem(mem, k) == [mem EXCEPT ![k] = NULL]

\* the statement of the operation that touches window.localStorage throws
LsThrows(mode, op) ==
  \/ mode = "accessThrows"
  \/ mode = "readThrows" /\ op = "get"
  \/ mode = "writeThrows" /\ op = "set"
  \/ mode = "deleteThrows" /\ op = "remove"

\* the operations whose localStorage statements all sit in a try block with
\* a catch that returns normally
InTry(op) == op \in {"get", "set", "remove"}

\* the operation raises an error to its caller: the statements outside the
\* try blocks read or assign memoryStore and cannot throw
Raises(mode, op) == LsThrows(mode, op) /\ ~InTry(op)

NoOp == [op |-> "none", key |-> CredKey, result |-> NULL, raised |-> FALSE]

\* ------------------------------------------------------------------------
\* Generation client (services/geminiService.ts)
\* ------------------------------------------------------------------------
ApiKeyText == <<"API", " ", "Key">>

\* the message getClient throws when no client is armed
MissingMsgLong ==
  ApiKeyText \o <<" ", "is not set.", " ", "Press the settings button and enter a key.">>
\* the message generateWallpapers throws for a missing credential
MissingMsgShort == ApiKeyText \o <<" ", "is not set.">>
GenericGenMsg == <<"Wallpaper generation failed.", " ", "Please try again.">>
NoImageMsg == <<"No image was generated.">>

\* what the provider may reject a request with
QuotaMsg == <<"Resource", " ", "exhausted">>
KeyRejectedMsg == ApiKeyText \o <<" ", "not", " ", "valid">>
ProviderErrors == {QuotaMsg, KeyRejectedMsg}

\* a provider response: the request resolved with a body, or rejected
Resolved(body, mime) == [kind |-> "ok", body |-> body, mime |-> mime, msg |-> NULL]
Rejected(msg) == [kind |-> "error", body |-> NULL, mime |-> NULL, msg |-> msg]

ErrorResponses == {Rejected(m) : m \in ProviderErrors}
ProbeResponses == {Resolved(<<"ok">>, NULL)} \cup ErrorResponses
CraftResponses ==
  {Resolved(t, NULL) : t \in {NULL, <<" ">>, <<" ", "c", " ">>}} \cup ErrorResponses
TopicResponses ==
  {Resolved(t, NULL) :
     t \in {NULL, <<"x", ",", " ", ",", " ", "y", " ">>}} \cup ErrorResponses
ImageResponses ==
  {Resolved(<<"d1">>, <<"image/jpeg">>), Resolved(NULL, NULL)} \cup ErrorResponses

\* the outcome of a call: a returned value or a thrown error
Ok(v) == [ok |-> TRUE, val |-> v, msg |-> NULL]
Err(m) == [ok |-> FALSE, val |-> NULL, msg |-> m]

FallbackTopics ==
  << <<"dreamy night sky">>, <<"rainy city">>, <<"calm forest">>,
     <<"minimal geometry">>, <<"vintage film mood">> >>

NumVariants == 4

setApiKey_never(k) == NULL

\* setApiKey: the client it leaves armed (NULL: none)
setApiKey(k) == IF Falsy(k) THEN NULL ELSE k

validateApiKey_rethrow(resp) ==
  [threw |-> resp.kind = "error" /\ Includes(resp.msg, ApiKeyText),
   value |-> resp.kind = "ok"]

\* validateApiKey: every failure of the probe is caught and mapped to false
validateApiKey(resp) == [threw |-> FALSE, value |-> resp.kind = "ok"]

getClient(ai) == IF ai = NULL THEN Err(MissingMsgLong) ELSE Ok(ai)

\* the catch block shared by generateCreativePrompt and
\* generateTopicSuggestions: rethrow when the message includes "API Key"
CatchOrFallback(err, fallback) ==
  IF Includes(err.msg, ApiKeyText) THEN err ELSE Ok(fallback)

\* generateCreativePrompt(topic) with the client ai and the provider's response
generateCreativePrompt(ai, topic, resp) ==
  IF ~getClient(ai).ok THEN CatchOrFallback(getClient(ai), topic)
  ELSE IF resp.kind = "error" THEN CatchOrFallback(Err(resp.msg), topic)
  ELSE IF Falsy(resp.body) \/ Falsy(Trim(resp.body)) THEN Ok(topic)
  ELSE Ok(Trim(resp.body))

\* generateTopicSuggestions() with the client ai and the provider's response
generateTopicSuggestions(ai, resp) ==
  IF ~getClient(ai).ok THEN CatchOrFallback(getClient(ai), FallbackTopics)
  ELSE IF resp.kind = "error" THEN CatchOrFallback(Err(resp.msg), FallbackTopics)
  ELSE LET text == IF Falsy(resp.body) THEN <<>> ELSE resp.body
       IN  Ok(FilterNonEmpty(MapTrim(SplitComma(text))))

\* the data URL generateSingleImage builds from an inline image part
DataUrl(mime, data) ==
  <<"data:">> \o (IF Falsy(mime) THEN <<"image/png">> ELSE mime)
    \o <<";base64", ",">> \o data

\* the request generateSingleImage sends
ImageRequest(prompt, referenceImage) ==
  LET pieces == IF Falsy(referenceImage) THEN <<>> ELSE SplitComma(referenceImage)
      base64Data == IF Len(pieces) >= 2 THEN pieces[2] ELSE NULL
  IN  [image |-> IF Falsy(base64Data) THEN NULL ELSE base64Data,
       text |-> IF Falsy(referenceImage)
                THEN prompt \o <<". High quality, aesthetic, 9:16 vertical phone wallpaper, highly detailed, atmospheric.">>
                ELSE <<"Remix this image based on these instructions: ">> \o prompt
                       \o <<". Ensure high quality, aesthetic, phone wallpaper style.">>]

\* generateSingleImage with the provider's response
generateSingleImage(ai, resp) ==
  IF ~getClient(ai).ok THEN getClient(ai)
  ELSE IF resp.kind = "error" THEN Err(resp.msg)
  ELSE IF Falsy(resp.body) THEN Err(NoImageMsg)
  ELSE Ok(DataUrl(resp.mime, resp.body))

WallpapersCatch_silent(err) == Err(<<>>)

\* the catch block of generateWallpapers
WallpapersCatch(err) ==
  IF Includes(err.msg, ApiKeyText) THEN Err(MissingMsgShort) ELSE Err(GenericGenMsg)

NewImageId_noIndex(t, index) == <<t>>

\* `${Date.now()}-${index}`
NewImageId(t, index) == <<t, "-", index>>

\* Date.now() at the j-th read of one results.map, when the clock ticks
\* before read number tick
ClockRead(j, tick) == IF j < tick THEN 0 ELSE 1
Ticks == {5, 9}

\* results.map((url, index) => ({id, url, prompt, createdAt}))
WallpaperRecords(urls, prompt, tick) ==
  [i \in 1..NumVariants |->
     [id |-> NewImageId(ClockRead(2 * i - 1, tick), i - 1),
      url |-> urls[i],
      prompt |-> prompt,
      createdAt |-> ClockRead(2 * i, tick)]]

\* an optional record: None or Some(x)
None == <<>>
Some(x) == <<x>>

NoResult == [ok |-> FALSE, val |-> NULL, msg |-> NULL]

\* the client a request in flight holds: getClient returned it at the call
Armed == <<"client">>

VARIABLES
  genAI,      \* the armed credential of the service module, or NULL
  gen,        \* the generateWallpapers call in flight or last settled
  lastCall    \* history: the last direct call of a client operation

clientVars == <<genAI, gen, lastCall>>

GenIdle ==
  [status |-> "idle", caller |-> "none", armed |-> FALSE, prompt |-> <<>>,
   remix |-> FALSE, anyRejected |-> FALSE, reqs |-> <<>>, slots |-> <<>>, urls |-> <<>>, result |-> NoResult]

NoCall ==
  [op |-> "none", armed |-> FALSE, topic |-> <<>>, failed |-> FALSE,
   out |-> NoResult]

\* generateWallpapers up to its await: the four promises are created; with
\* no client armed each one is already rejected by getClient
StartWallpapers(ai, p, referenceImage, caller, remix) ==
  [status |-> IF ai = NULL THEN "settled" ELSE "inflight",
   caller |-> caller,
   armed |-> ai # NULL,
   prompt |-> p,
   remix |-> remix,
   anyRejected |-> ai = NULL,
   reqs |-> IF ai = NULL THEN <<>>
            ELSE [i \in 1..NumVariants |-> ImageRequest(p, referenceImage)],
   slots |-> [i \in 1..NumVariants |-> IF ai = NULL THEN "done" ELSE "pending"],
   urls |-> [i \in 1..NumVariants |-> NULL],
   result |-> IF ai = NULL THEN WallpapersCatch(generateSingleImage(ai, Rejected(<<>>)))
              ELSE NoResult]

\* ------------------------------------------------------------------------
\* Settings dialog (components/SettingsModal.tsx) and coordinator (App.tsx)
\* ------------------------------------------------------------------------
InvalidKeyMsg == <<"Invalid API Key.", " ", "Could not connect.">>

InitialTopics ==
  << <<"mystic aurora forest">>, <<"cyberpunk neon city">>,
     <<"warm ghibli mood">>, <<"minimal pastel pattern">>,
     <<"rainy window view">> >>

\* what the user types
KeyInputs == {<<>>, <<" ">>, <<"a">>, <<" ", "b", " ">>}
PromptInputs == {<<>>, <<"p">>}
CustomInputs == {<<>>, <<"u">>}
\* the list positions the user picks from
PickIdx == {1}

VARIABLES
  key,                \* SettingsModal: the text of the input field
  isValidating,       \* SettingsModal
  modalError,         \* SettingsModal: its inline error, or NULL
  val,                \* the handleSave call suspended in validateApiKey
  apiKey,             \* App: the credential state
  isSettingsOpen,
  isKeyLoaded,
  settingsTimer,      \* the setTimeout of loadKey is pending
  prompt,
  images,
  isLoading,
  isGeneratingPrompt,
  isRefreshingTopics,
  selectedImage,
  remixSource,
  error,              \* App: the error banner, or NULL
  topics,
  activeTheme,
  customTopic,
  crafts,             \* the bag of topics of the generateCreativePrompt calls in flight
  topicsReq,          \* a generateTopicSuggestions call is in flight
  calls,              \* how many client calls the coordinator has made
  gatedBy             \* history: the handler whose checkApiKey failed last

modalVars == <<key, isValidating, modalError, val>>
credVars == <<apiKey, isSettingsOpen, isKeyLoaded, settingsTimer>>
genVars == <<images, isLoading, selectedImage, remixSource, error>>
topicVars ==
  <<prompt, isGeneratingPrompt, isRefreshingTopics, topics, activeTheme,
    customTopic, crafts, topicsReq>>
appVars == <<credVars, genVars, topicVars, calls, gatedBy>>

vars == <<storeVars, clientVars, modalVars, appVars>>

\* ---- the store on its own ----

StoreInit ==
  /\ lsMode \in StorageModes
  /\ ls \in [Keys -> {NULL, <<"a">>}]
  /\ ls[OtherKey] = NULL
  /\ memoryStore = [k \in Keys |-> NULL]
  /\ written = [k \in Keys |-> NULL]
  /\ lastOp = NoOp

StoreGet(k) ==
  /\ lastOp' = [op |-> "get", key |-> k,
                result |-> getItem(lsMode, ls, memoryStore, k),
                raised |-> Raises(lsMode, "get")]
  /\ UNCHANGED <<lsMode, ls, memoryStore, written>>
  /\ UNCHANGED <<clientVars, modalVars, appVars>>

StoreSet(k, v) ==
  /\ ls' = setItemLs(lsMode, ls, k, v)
  /\ memoryStore' = setItemMem(memoryStore, k, v)
  /\ written' = [written EXCEPT ![k] = v]
  /\ lastOp' = [op |-> "set", key |-> k, result |-> NULL,
                raised |-> Raises(lsMode, "set")]
  /\ UNCHANGED lsMode
  /\ UNCHANGED <<clientVars, modalVars, appVars>>

StoreRemove(k) ==
  /\ ls' = removeItemLs(lsMode, ls, k)
  /\ memoryStore' = removeItemMem(memoryStore, k)
  /\ written' = [written EXCEPT ![k] = NULL]
  /\ lastOp' = [op |-> "remove", key |-> k, result |-> NULL,
                raised |-> Raises(lsMode, "remove")]
  /\ UNCHANGED lsMode
  /\ UNCHANGED <<clientVars, modalVars, appVars>>

ValIdle ==
  [status |-> "idle", key |-> <<>>, probed |-> <<>>, probeOk |-> FALSE,
   result |-> [threw |-> FALSE, value |-> FALSE]]

Init ==
  /\ StoreInit
  /\ genAI = NULL
  /\ gen = GenIdle
  /\ lastCall = NoCall
  /\ key = <<>>
  /\ isValidating = FALSE
  /\ modalError = NULL
  /\ val = ValIdle
  /\ apiKey = <<>>
  /\ isSettingsOpen = FALSE
  /\ isKeyLoaded = FALSE
  /\ settingsTimer = FALSE
  /\ prompt = <<>>
  /\ images = <<>>
  /\ isLoading = FALSE
  /\ isGeneratingPrompt = FALSE
  /\ isRefreshingTopics = FALSE
  /\ selectedImage = None
  /\ remixSource = None
  /\ error = NULL
  /\ topics = InitialTopics
  /\ activeTheme = <<>>
  /\ customTopic = <<>>
  /\ crafts = EmptyBag
  /\ topicsReq = FALSE
  /\ calls = 0
  /\ gatedBy = "none"

\* ---- credential lifecycle ----

\* the useEffect of App: loadKey, run once after the first render
LoadKey ==
  /\ ~isKeyLoaded
  /\ LET savedKey == getItem(lsMode, ls, memoryStore, CredKey)
     IN  IF ~Falsy(savedKey)
         THEN /\ apiKey' = savedKey
              /\ genAI' = setApiKey(savedKey)
              /\ UNCHANGED settingsTimer
         ELSE /\ settingsTimer' = TRUE
              /\ UNCHANGED <<apiKey, genAI>>
  /\ isKeyLoaded' = TRUE
  /\ UNCHANGED <<storeVars, gen, lastCall, modalVars, isSettingsOpen, genVars,
                 topicVars, calls, gatedBy>>

\* setTimeout(() => setIsSettingsOpen(true), 500)
SettingsTimerFires ==
  /\ settingsTimer
  /\ settingsTimer' = FALSE
  /\ isSettingsOpen' = TRUE
  /\ UNCHANGED <<storeVars, clientVars, modalVars, apiKey, isKeyLoaded, genVars,
                 topicVars, calls, gatedBy>>

\* the settings button of the header
OpenSettings ==
  /\ isKeyLoaded
  /\ ~isSettingsOpen
  /\ isSettingsOpen' = TRUE
  /\ UNCHANGED <<storeVars, clientVars, modalVars, apiKey, isKeyLoaded,
                 settingsTimer, genVars, topicVars, calls, gatedBy>>

\* onClose from the dialog's close button
CloseSettings ==
  /\ isSettingsOpen
  /\ isSettingsOpen' = FALSE
  /\ UNCHANGED <<storeVars, clientVars, modalVars, apiKey, isKeyLoaded,
                 settingsTimer, genVars, topicVars, calls, gatedBy>>

\* onChange of the key field; the field is not disabled while validating
EditKey(s) ==
  /\ isSettingsOpen
  /\ key # s
  /\ key' = s
  /\ UNCHANGED <<storeVars, clientVars, isValidating, modalError, val, appVars>>

\* handleSave up to its await; the button is disabled while validating and
\* for a blank field.  The continuation keeps the key of this render.
HandleSave ==
  /\ isSettingsOpen
  /\ ~isValidating
  /\ ~Falsy(Trim(key))
  /\ val.status = "idle"
  /\ isValidating' = TRUE
  /\ modalError' = NULL
  /\ val' = [ValIdle EXCEPT !.status = "pending", !.key = key,
                            !.probed = Trim(key)]
  /\ UNCHANGED <<storeVars, clientVars, key, appVars>>

\* validateApiKey(val.probed) settles with the provider's answer to the probe
ValidateSettle(resp) ==
  /\ val.status = "pending"
  /\ val' = [val EXCEPT !.status = "resolved", !.probeOk = resp.kind = "ok",
                         !.result = validateApiKey(resp)]
  /\ UNCHANGED <<storeVars, clientVars, key, isValidating, modalError, appVars>>

SavedCandidate_field(closureKey, fieldKey) == Trim(fieldKey)

\* key.trim() in the continuation of handleSave
SavedCandidate(closureKey, fieldKey) == Trim(closureKey)

\* handleSave after its await; onSave is handleKeySave of App
HandleSaveResume ==
  /\ val.status = "resolved"
  /\ val' = ValIdle
  /\ IF val.result.threw
     THEN UNCHANGED <<storeVars, genAI, isValidating, modalError, apiKey,
                      isSettingsOpen>>
     ELSE /\ isValidating' = FALSE
          /\ IF val.result.value
             THEN LET k == SavedCandidate(val.key, key)
                  IN  /\ ls' = setItemLs(lsMode, ls, CredKey, k)
                      /\ memoryStore' = setItemMem(memoryStore, CredKey, k)
                      /\ written' = [written EXCEPT ![CredKey] = k]
                      /\ apiKey' = k
                      /\ genAI' = setApiKey(k)
                      /\ isSettingsOpen' = FALSE
                      /\ UNCHANGED <<lsMode, lastOp, modalError>>
             ELSE /\ modalError' = InvalidKeyMsg
                  /\ UNCHANGED <<storeVars, genAI, apiKey, isSettingsOpen>>
  /\ UNCHANGED <<gen, lastCall, key, isKeyLoaded, settingsTimer, genVars,
                 topicVars, calls, gatedBy>>

KeyNext ==
  \/ LoadKey
  \/ SettingsTimerFires
  \/ OpenSettings
  \/ CloseSettings
  \/ \E s \in KeyInputs : EditKey(s)
  \/ HandleSave
  \/ \E resp \in ProbeResponses : ValidateSettle(resp)
  \/ HandleSaveResume

\* ---- coordinator ----

checkApiKey_always(k) == TRUE

\* checkApiKey: its return value; on false it opens the settings dialog
checkApiKey(k) == ~Falsy(k)

\* the early return of a handler whose checkApiKey failed
Gated(handler) ==
  /\ isSettingsOpen' = TRUE
  /\ gatedBy' = handler
  /\ UNCHANGED <<storeVars, clientVars, modalVars, apiKey, isKeyLoaded,
                 settingsTimer, genVars, topicVars, calls>>

\* onChange of the prompt textarea, disabled while a prompt is generated
SetPrompt(s) ==
  /\ isKeyLoaded
  /\ ~isGeneratingPrompt
  /\ prompt # s
  /\ prompt' = s
  /\ UNCHANGED <<storeVars, clientVars, modalVars, credVars, genVars,
                 isGeneratingPrompt, isRefreshingTopics, topics, activeTheme,
                 customTopic, crafts, topicsReq, calls, gatedBy>>

\* onChange of the custom topic field
SetCustomTopic(s) ==
  /\ isKeyLoaded
  /\ customTopic # s
  /\ customTopic' = s
  /\ UNCHANGED <<storeVars, clientVars, modalVars, credVars, genVars, prompt,
                 isGeneratingPrompt, isRefreshingTopics, topics, activeTheme,
                 crafts, topicsReq, calls, gatedBy>>

ImagesOnStart_keep(prev) == prev

\* setImages([]) at the start of handleGenerate
ImagesOnStart(prev) == <<>>

\* handleGenerate up to its await.  The submit button is disabled while
\* loading, for a blank prompt and while a prompt is generated.
HandleGenerate ==
  /\ isKeyLoaded
  /\ ~isLoading
  /\ ~Falsy(Trim(prompt))
  /\ ~isGeneratingPrompt
  /\ IF ~checkApiKey(apiKey) THEN Gated("handleGenerate")
     ELSE LET referenceImage ==
                IF remixSource = None THEN NULL ELSE remixSource[1].url
              g == StartWallpapers(genAI, prompt, referenceImage, "app",
                                   remixSource # None)
          IN  /\ gen' = g
              /\ images' = ImagesOnStart(images)
              /\ IF g.status = "settled"
                 THEN /\ error' = g.result.msg
                      /\ isLoading' = FALSE
                 ELSE /\ error' = NULL
                      /\ isLoading' = TRUE
              /\ calls < MaxCalls
              /\ calls' = calls + 1
              /\ UNCHANGED <<storeVars, genAI, lastCall, modalVars, credVars,
                             selectedImage, remixSource, topicVars, gatedBy>>

AllFulfilled(slots) == \A i \in DOMAIN slots : slots[i] = "fulfilled"

\* the slots once Promise.all has settled: what a request settled with no
\* longer matters, only whether it is still in flight
Joined(slots) ==
  [i \in DOMAIN slots |-> IF slots[i] = "pending" THEN "pending" ELSE "done"]

\* One of the four generateSingleImage calls settles.  Promise.all settles
\* with the first rejection, or with the last fulfilment; what settles after
\* that is dropped.  When the coordinator made the call, the rest of
\* handleGenerate runs with the outcome.  tick places the millisecond change
\* of Date.now() within results.map.
ImageSettle(i, resp, tick) ==
  /\ gen.status # "idle"
  /\ i \in DOMAIN gen.slots
  /\ gen.slots[i] = "pending"
  /\ LET out == generateSingleImage(Armed, resp)
         slots == [gen.slots EXCEPT ![i] = IF out.ok THEN "fulfilled" ELSE "rejected"]
         urls == [gen.urls EXCEPT ![i] = out.val]
         result == IF ~out.ok THEN WallpapersCatch(out)
                   ELSE IF AllFulfilled(slots)
                   THEN Ok(WallpaperRecords(urls, gen.prompt, tick))
                   ELSE NoResult
     IN  IF gen.status = "settled"
         THEN /\ gen' = [gen EXCEPT !.slots = Joined(slots),
                                    !.anyRejected = @ \/ ~out.ok]
              /\ UNCHANGED genVars
         ELSE IF result = NoResult
         THEN /\ gen' = [gen EXCEPT !.slots = slots, !.urls = urls]
              /\ UNCHANGED genVars
         ELSE /\ gen' = [gen EXCEPT !.status = "settled",
                                    !.slots = Joined(slots),
                                    !.anyRejected = ~out.ok,
                                    !.urls = [j \in DOMAIN urls |-> NULL],
                                    !.result = result]
              /\ IF gen.caller # "app" THEN UNCHANGED genVars
                 ELSE IF result.ok
                 THEN /\ images' = result.val
                      /\ remixSource' = IF gen.remix THEN None ELSE remixSource
                      /\ isLoading' = FALSE
                      /\ UNCHANGED <<selectedImage, error>>
                 ELSE /\ error' = result.msg
                      /\ isLoading' = FALSE
                      /\ UNCHANGED <<images, selectedImage, remixSource>>
  /\ UNCHANGED <<storeVars, genAI, lastCall, modalVars, credVars, topicVars, calls, gatedBy>>

\* a click on a gallery entry opens the preview
SelectImage(i) ==
  /\ isKeyLoaded
  /\ i \in DOMAIN images
  /\ selectedImage # Some(images[i])
  /\ selectedImage' = Some(images[i])
  /\ UNCHANGED <<storeVars, clientVars, modalVars, credVars, images, isLoading,
                 remixSource, error, topicVars, calls, gatedBy>>

ClosePreview ==
  /\ selectedImage # None
  /\ selectedImage' = None
  /\ UNCHANGED <<storeVars, clientVars, modalVars, credVars, images, isLoading,
                 remixSource, error, topicVars, calls, gatedBy>>

handleRemixStart ==
  /\ selectedImage # None
  /\ remixSource' = selectedImage
  /\ prompt' = selectedImage[1].prompt
  /\ selectedImage' = None
  /\ UNCHANGED <<storeVars, clientVars, modalVars, credVars, images, isLoading,
                 error, isGeneratingPrompt, isRefreshingTopics, topics,
                 activeTheme, customTopic, crafts, topicsReq, calls, gatedBy>>

clearRemix ==
  /\ remixSource # None
  /\ remixSource' = None
  /\ prompt' = <<>>
  /\ UNCHANGED <<storeVars, clientVars, modalVars, credVars, images, isLoading,
                 selectedImage, error, isGeneratingPrompt, isRefreshingTopics,
                 topics, activeTheme, customTopic, crafts, topicsReq, calls, gatedBy>>

\* the rest of a prompt handler once its theme is marked: the call of
\* generateCreativePrompt.  With no client armed it is rejected at once
\* and the finally block resets the flag.
StartCraft(topic) ==
  /\ calls < MaxCalls
  /\ calls' = calls + 1
  /\ UNCHANGED gatedBy
  /\ IF genAI = NULL
     THEN /\ isGeneratingPrompt' = FALSE
          /\ UNCHANGED crafts
     ELSE /\ isGeneratingPrompt' = TRUE
          /\ crafts' = crafts (+) SetToBag({topic})

\* the value the topic select shows
SelectValue == IF \E i \in DOMAIN topics : topics[i] = activeTheme
               THEN activeTheme ELSE <<>>

\* handlePresetTopicSelect up to its await; onChange fires for an option
\* other than the one shown, the select is disabled while topics refresh
handlePresetTopicSelect(topic) ==
  /\ isKeyLoaded
  /\ ~isRefreshingTopics
  /\ topic # SelectValue
  /\ IF ~checkApiKey(apiKey) THEN Gated("handlePresetTopicSelect")
     ELSE IF Falsy(topic) THEN UNCHANGED vars
     ELSE /\ activeTheme' = topic
          /\ customTopic' = <<>>
          /\ StartCraft(topic)
          /\ UNCHANGED <<storeVars, clientVars, modalVars, credVars, genVars,
                         prompt, isRefreshingTopics, topics, topicsReq>>

\* handleCustomTopicSubmit up to its await; the Enter key calls it whatever
\* the state of its button
handleCustomTopicSubmit ==
  /\ isKeyLoaded
  /\ IF ~checkApiKey(apiKey) THEN Gated("handleCustomTopicSubmit")
     ELSE IF Falsy(Trim(customTopic)) THEN UNCHANGED vars
     ELSE /\ activeTheme' = customTopic
          /\ StartCraft(customTopic)
          /\ UNCHANGED <<storeVars, clientVars, modalVars, credVars, genVars,
                         prompt, isRefreshingTopics, topics, customTopic,
                         topicsReq>>

\* refreshPrompt up to its await; its button is rendered for a marked theme,
\* no prompt being generated and a credential present
refreshPrompt ==
  /\ isKeyLoaded
  /\ ~Falsy(activeTheme)
  /\ ~isGeneratingPrompt
  /\ ~Falsy(apiKey)
  /\ IF ~checkApiKey(apiKey) THEN Gated("refreshPrompt")
     ELSE /\ StartCraft(activeTheme)
          /\ UNCHANGED <<storeVars, clientVars, modalVars, credVars, genVars,
                         prompt, isRefreshingTopics, topics, activeTheme,
                         customTopic, topicsReq>>

\* the generateCreativePrompt call for topic settles and its handler runs
\* to the end
CraftSettle(topic, resp) ==
  /\ BagIn(topic, crafts)
  /\ LET out == generateCreativePrompt(Armed, topic, resp)
     IN  prompt' = IF out.ok THEN out.val ELSE prompt
  /\ isGeneratingPrompt' = FALSE
  /\ crafts' = crafts (-) SetToBag({topic})
  /\ UNCHANGED <<storeVars, clientVars, modalVars, credVars, genVars,
                 isRefreshingTopics, topics, activeTheme, customTopic,
                 topicsReq, calls, gatedBy>>

\* refreshTopics up to its await; its button is disabled while refreshing
refreshTopics ==
  /\ isKeyLoaded
  /\ ~isRefreshingTopics
  /\ IF ~checkApiKey(apiKey) THEN Gated("refreshTopics")
     ELSE /\ calls < MaxCalls
          /\ calls' = calls + 1
          /\ UNCHANGED gatedBy
          /\ isRefreshingTopics' = (genAI # NULL)
          /\ topicsReq' = (genAI # NULL)
          /\ UNCHANGED <<storeVars, clientVars, modalVars, credVars, genVars,
                         prompt, isGeneratingPrompt, topics, activeTheme,
                         customTopic, crafts>>

\* the generateTopicSuggestions call settles and refreshTopics runs to the end
TopicsSettle(resp) ==
  /\ topicsReq
  /\ topicsReq' = FALSE
  /\ isRefreshingTopics' = FALSE
  /\ LET out == generateTopicSuggestions(Armed, resp)
     IN  IF out.ok
         THEN /\ topics' = out.val
              /\ activeTheme' = <<>>
         ELSE UNCHANGED <<topics, activeTheme>>
  /\ UNCHANGED <<storeVars, clientVars, modalVars, credVars, genVars, prompt,
                 isGeneratingPrompt, customTopic, crafts, calls, gatedBy>>

\* the options of the topic select the user picks from
Pickable == {<<>>} \cup {topics[i] : i \in PickIdx \cap DOMAIN topics}

AppNext ==
  \/ \E s \in PromptInputs : SetPrompt(s)
  \/ \E s \in CustomInputs : SetCustomTopic(s)
  \/ HandleGenerate
  \/ \E i \in 1..NumVariants, resp \in ImageResponses : ImageSettle(i, resp, 9)
  \/ \E i \in PickIdx : SelectImage(i)
  \/ ClosePreview
  \/ handleRemixStart
  \/ clearRemix
  \/ \E topic \in Pickable : handlePresetTopicSelect(topic)
  \/ handleCustomTopicSubmit
  \/ refreshPrompt
  \/ \E topic \in BagToSet(crafts), resp \in CraftResponses :
       CraftSettle(topic, resp)
  \/ refreshTopics
  \/ \E resp \in TopicResponses : TopicsSettle(resp)

\* The coordinator reads the store in LoadKey only: its sessions start with
\* a working or an unreadable localStorage, with or without a stored key.
AppInit == Init /\ lsMode \in {"ok", "accessThrows"}

Next ==
  \/ LoadKey
  \/ SettingsTimerFires
  \/ OpenSettings
  \/ CloseSettings
  \/ AppNext

\* the coordinator from startup, with the key the store holds
Spec == AppInit /\ [][Next]_vars

\* the credential lifecycle: startup load and the settings dialog
KeySpec == Init /\ [][KeyNext]_vars

\* ---- the client called directly ----

ClientKeys == {<<>>, <<"a">>}
ClientTopics == {<<"t">>}
ClientPrompts == {<<"sunset">>}
ClientRefs == {NULL, DataUrl(NULL, <<"d0">>)}

ClientSetApiKey(k) ==
  /\ genAI # setApiKey(k)
  /\ genAI' = setApiKey(k)
  /\ UNCHANGED <<storeVars, gen, lastCall, modalVars, appVars>>

\* a call of generateCreativePrompt and the rejection or answer it gets
DirectCraft(topic, resp) ==
  /\ lastCall' = [op |-> "generateCreativePrompt", armed |-> genAI # NULL,
                  topic |-> topic, failed |-> resp.kind = "error",
                  out |-> generateCreativePrompt(genAI, topic, resp)]
  /\ UNCHANGED <<storeVars, genAI, gen, modalVars, appVars>>

\* a call of generateTopicSuggestions and the rejection or answer it gets
DirectTopics(resp) ==
  /\ lastCall' = [op |-> "generateTopicSuggestions", armed |-> genAI # NULL,
                  topic |-> <<>>, failed |-> resp.kind = "error",
                  out |-> generateTopicSuggestions(genAI, resp)]
  /\ UNCHANGED <<storeVars, genAI, gen, modalVars, appVars>>

\* a call of generateWallpapers; ImageSettle settles its requests
DirectWallpapers(p, referenceImage) ==
  /\ gen.status # "inflight"
  /\ gen' = StartWallpapers(genAI, p, referenceImage, "direct", FALSE)
  /\ UNCHANGED <<storeVars, genAI, lastCall, modalVars, appVars>>

ClientNext ==
  \/ \E k \in ClientKeys : ClientSetApiKey(k)
  \/ \E topic \in ClientTopics, resp \in CraftResponses : DirectCraft(topic, resp)
  \/ \E resp \in TopicResponses : DirectTopics(resp)
  \/ \E p \in ClientPrompts, r \in ClientRefs : DirectWallpapers(p, r)
  \/ \E i \in 1..NumVariants, resp \in ImageResponses, tick \in Ticks :
       ImageSettle(i, resp, tick)

\* the client never reads the store
ClientInit == Init /\ lsMode = "ok" /\ ls[CredKey] = NULL

\* the generation client under direct calls, armed or not
ClientSpec == ClientInit /\ [][ClientNext]_vars

StoreNext ==
  \/ \E k \in Keys : StoreGet(k)
  \/ \E k \in Keys, v \in StoreValues : StoreSet(k, v)
  \/ \E k \in Keys : StoreRemove(k)

\* the store on its own: any sequence of get, set and remove
StoreSpec == Init /\ [][StoreNext]_vars

\* ------------------------------------------------------------------------
\* Properties
\* ------------------------------------------------------------------------

\* C1: a getItem(k) that follows setItem(k, v) in the same session, with no
\* write or remove of k in between, returns exactly v, whatever v is (the
\* empty string included) and however localStorage behaves.
C1_ReadAfterWrite ==
  (lastOp.op = "get" /\ written[lastOp.key] # NULL)
    => lastOp.result = written[lastOp.key]

\* C2: getItem(k) falls back to the in-memory mapping when the persistent
\* read misses: after a setItem(k, v) whose persistent write threw or was
\* dropped, with reads working and no persistent entry for k, it returns v.
\* Stated for a non-empty v; the empty string is the case of C1.
C2_FallbackOnMiss ==
  ( /\ lastOp.op = "get"
    /\ written[lastOp.key] \notin {NULL, <<>>}
    /\ ~WriteStores(lsMode)
    /\ ReadReaches(lsMode)
    /\ ls[lastOp.key] = NULL )
    => lastOp.result = written[lastOp.key]

\* what the store returns for the credential key
StoredCredential == getItem(lsMode, ls, memoryStore, CredKey)

\* a validation has succeeded and handleSave has not written the store yet
SaveWindow == val.status = "resolved" /\ val.result.value

\* C3: once the startup load has run, the coordinator's apiKey equals the
\* value the store returns for the credential key (no key and the empty key
\* being the same), outside the window between a successful validation and
\* the store write.
C3_MemoryEqualsStore ==
  (isKeyLoaded /\ ~SaveWindow)
    => apiKey = (IF Falsy(StoredCredential) THEN <<>> ELSE StoredCredential)

\* the step is the continuation of handleSave
IsSaveResume == val.status = "resolved" /\ val'.status = "idle"

\* the candidate c is current, armed and written through the store
SavedAs(c) ==
  /\ apiKey' = c
  /\ genAI' = c
  /\ memoryStore'[CredKey] = c
  /\ written'[CredKey] = c
  /\ WriteStores(lsMode) => ls'[CredKey] = c

\* C4: a save happens only after a successful validation and with the
\* candidate that was validated.  After a failed validation the credential,
\* the armed client and the store are unchanged and the dialog shows its
\* inline error; after a successful one the validated candidate is current,
\* armed and stored, whatever the input field holds by then; and after the
\* startup load nothing else changes the credential, the client or the store.
C4_SaveOnlyValidated ==
  [][ /\ (IsSaveResume /\ ~val.result.value)
           => /\ UNCHANGED <<apiKey, genAI, ls, memoryStore>>
              /\ modalError' = InvalidKeyMsg
      /\ (IsSaveResume /\ val.result.value) => SavedAs(val.probed)
      /\ (isKeyLoaded /\ <<apiKey, genAI, ls, memoryStore>>' # <<apiKey, genAI, ls, memoryStore>>)
           => (IsSaveResume /\ val.result.value /\ val.probeOk)
    ]_vars

\* a key was saved in this session while the field held another candidate
C4_Witness ==
  /\ ~Falsy(apiKey)
  /\ written[CredKey] = apiKey
  /\ genAI = apiKey
  /\ ~Falsy(Trim(key))
  /\ Trim(key) # apiKey

\* C5: validateApiKey never throws, returns true exactly when the probe call
\* succeeded, and leaves the armed client and the store as they were.
C5_ValidatePure ==
  [][ (val.status = "pending" /\ val'.status = "resolved")
        => /\ ~val'.result.threw
           /\ val'.result.value = val'.probeOk
           /\ UNCHANGED <<genAI, ls, memoryStore, apiKey>>
    ]_vars

\* a probe the provider rejected was reported as false
C5_Witness ==
  /\ val.status = "resolved"
  /\ ~val.probeOk
  /\ ~val.result.value
  /\ ~val.result.threw

\* the step is one of the five handlers that request something
IsRequestHandler ==
  \/ HandleGenerate
  \/ \E topic \in Pickable : handlePresetTopicSelect(topic)
  \/ handleCustomTopicSubmit
  \/ refreshPrompt
  \/ refreshTopics

\* C6: with no credential, each of generate, select preset topic, submit
\* custom topic, regenerate prompt and refresh topics opens the settings
\* dialog, makes no client call and leaves prompt, result set, topic list,
\* active theme and error as they were.
C6_PresenceGate ==
  [][ (Falsy(apiKey) /\ IsRequestHandler)
        => /\ isSettingsOpen'
           /\ UNCHANGED <<calls, gen, crafts, topicsReq>>
           /\ UNCHANGED <<prompt, images, topics, activeTheme, error>>
    ]_vars

\* generate was pressed with a prompt typed and no credential
C6_Witness ==
  /\ Falsy(apiKey)
  /\ gatedBy = "handleGenerate"
  /\ isSettingsOpen
  /\ ~Falsy(Trim(prompt))
  /\ calls = 0

\* the outcome is the missing-credential error
IsMissingCredential(out) ==
  ~out.ok /\ out.msg \in {MissingMsgLong, MissingMsgShort}

\* C7: a client operation ends in the missing-credential error if and only
\* if it was called with no client armed, whatever the provider rejects a
\* request with.
C7_MissingIffUnarmed ==
  /\ lastCall.op # "none"
       => (IsMissingCredential(lastCall.out) <=> ~lastCall.armed)
  /\ gen.status = "settled"
       => (IsMissingCredential(gen.result) <=> ~gen.armed)

\* C8: the error banner never holds the missing-credential message, and a
\* generation or prompt-crafting call that ends in the missing-credential
\* error opens the settings dialog.
C8_MissingToOnboarding ==
  [][ /\ error' \notin {MissingMsgLong, MissingMsgShort}
      /\ (gen'.result # gen.result /\ IsMissingCredential(gen'.result))
           => isSettingsOpen'
      /\ \A topic \in BagToSet(crafts), resp \in CraftResponses :
           ( /\ CraftSettle(topic, resp)
             /\ IsMissingCredential(generateCreativePrompt(Armed, topic, resp)) )
             => isSettingsOpen'
    ]_vars

\* C9: an armed generateWallpapers issues exactly 4 requests with the same
\* input; it returns records if and only if all 4 requests succeed, and
\* then exactly 4 of them, with pairwise distinct ids and the input prompt;
\* if any request fails it ends in one error and no records.
C9_AllOrNothing ==
  /\ (gen.status # "idle" /\ gen.armed)
       => /\ Len(gen.reqs) = 4
          /\ \A i, j \in DOMAIN gen.reqs : gen.reqs[i] = gen.reqs[j]
  /\ gen.status # "idle"
       => /\ gen.result.ok
               <=> (~gen.anyRejected /\ \A i \in DOMAIN gen.slots : gen.slots[i] = "done")
          /\ gen.result.ok
               => /\ Len(gen.result.val) = 4
                  /\ \A i, j \in DOMAIN gen.result.val :
                       i # j => gen.result.val[i].id # gen.result.val[j].id
                  /\ \A i \in DOMAIN gen.result.val :
                       gen.result.val[i].prompt = gen.prompt
          /\ gen.anyRejected
               => /\ gen.status = "settled"
                  /\ ~gen.result.ok
                  /\ gen.result.val = NULL
                  /\ gen.result.msg \in {MissingMsgShort, GenericGenMsg}

\* an armed call returned its four records
C9_Witness ==
  /\ gen.status = "settled"
  /\ gen.armed
  /\ gen.result.ok
  /\ gen.prompt = <<"sunset">>

\* C10: with a client armed, a failed provider call makes
\* generateTopicSuggestions return the built-in list of 5 non-empty themes
\* and generateCreativePrompt return the theme it was given; neither throws.
C10_Degrade ==
  (lastCall.op # "none" /\ lastCall.armed /\ lastCall.failed)
    => /\ lastCall.out.ok
       /\ lastCall.op = "generateTopicSuggestions"
            => /\ lastCall.out.val = FallbackTopics
               /\ Len(lastCall.out.val) = 5
               /\ \A i \in DOMAIN lastCall.out.val : lastCall.out.val[i] # <<>>
       /\ lastCall.op = "generateCreativePrompt"
            => lastCall.out.val = lastCall.topic

\* C11: the coordinator's topic list always has exactly 5 entries, each a
\* non-empty trimmed string, after any sequence of topic refreshes and
\* whatever text the provider answers generateTopicSuggestions with.
C11_FiveTopics ==
  /\ Len(topics) = 5
  /\ \A i \in DOMAIN topics : topics[i] # <<>> /\ Trim(topics[i]) = topics[i]

\* C12: while a generation started by the coordinator is in flight, the
\* result set is empty and no error is shown, whatever they held before.
C12_ClearedWhileLoading ==
  (gen.caller = "app" /\ gen.status = "inflight")
    => (images = <<>> /\ error = NULL)

\* a remix of an image of the previous result set is in flight
C12_Witness ==
  /\ gen.caller = "app"
  /\ gen.status = "inflight"
  /\ gen.remix
  /\ calls = 2
  /\ images = <<>>
  /\ error = NULL

\* C13: getItem, setItem and removeItem never raise to their caller, however
\* localStorage behaves, and removeItem(k) deletes the in-memory entry of k
\* and leaves the in-memory entries of the other keys as they were.
C13_NoRaise ==
  [][ /\ ~lastOp'.raised
      /\ \A k \in Keys :
           StoreRemove(k)
             => /\ memoryStore'[k] = NULL
                /\ \A j \in Keys \ {k} : memoryStore'[j] = memoryStore[j]
    ]_vars

\* a key was removed while localStorage.removeItem throws and another key
\* keeps its in-memory entry
C13_Witness ==
  /\ lsMode = "deleteThrows"
  /\ lastOp.op = "remove"
  /\ ~lastOp.raised
  /\ memoryStore[lastOp.key] = NULL
  /\ \E j \in Keys \ {lastOp.key} : memoryStore[j] # NULL

\* C14: generateWallpapers completes, and the coordinator's loading flag is
\* reset, only when all 4 image requests have settled: while one of them is
\* pending the call is in flight and isLoading is set.
C14_JoinAll ==
  (gen.status # "idle" /\ \E i \in DOMAIN gen.slots : gen.slots[i] = "pending")
    => (gen.status = "inflight" /\ isLoading)

\* C15: when a prompt-crafting call settles with a prompt, that prompt was
\* crafted for the theme that is marked active at that moment, for every
\* interleaving of selections, custom submissions and regenerations.
C15_PromptForActiveTheme ==
  [][ \A topic \in BagToSet(crafts), resp \in CraftResponses :
        (CraftSettle(topic, resp) /\ generateCreativePrompt(Armed, topic, resp).ok)
          => topic = activeTheme'
    ]_vars

\* the last generation of the coordinator failed
GenFailed == gen.caller = "app" /\ gen.status = "settled" /\ ~gen.result.ok

\* C16: after a failed generation the error is set to the failure's
\* message, the result set is empty and the loading flag is false; image
\* requests are issued again only by another handleGenerate; and a
\* non-empty result set is never shown together with an error.
C16_FailureShown ==
  [][ /\ GenFailed'
           => /\ ~Falsy(error')
              /\ error' = gen'.result.msg
              /\ images' = <<>>
              /\ ~isLoading'
      /\ images' # <<>> => error' = NULL
      /\ (GenFailed /\ gen'.status = "inflight")
           => (HandleGenerate /\ calls' = calls + 1)
    ]_vars

\* the second generation of the session failed with the generic message
C16_Witness ==
  /\ GenFailed
  /\ calls = 2
  /\ error = GenericGenMsg
  /\ images = <<>>
  /\ ~isLoading

\* C17: once the startup load has run, a client is armed exactly when apiKey
\* is non-empty, and it is armed with apiKey; a credential that is present
\* is never made absent.
C17_ArmedIffPresent ==
  [][ /\ isKeyLoaded'
           => /\ (genAI' # NULL) <=> ~Falsy(apiKey')
              /\ genAI' # NULL => genAI' = apiKey'
      /\ ~Falsy(apiKey) => ~Falsy(apiKey')
    ]_vars

\* a key was saved through the dialog, is stored and armed, and the field
\* was edited afterwards
C17_Witness ==
  /\ isKeyLoaded
  /\ ls[CredKey] = <<"b">>
  /\ apiKey = <<"b">>
  /\ genAI = <<"b">>
  /\ key = <<"a">>

\* C18: isGeneratingPrompt is true in every state where a prompt-crafting
\* call is in flight.
C18_FlagWhileCrafting ==
  BagCardinality(crafts) > 0 => isGeneratingPrompt

====
